---- MODULE Spec2Model ----
(***************************************************************************)
(* Joblio: job normalization / deduplication (src/lib/jobs/normalize.ts)   *)
(* and the sync route handler (src/app/api/jobs/sync/route.ts).            *)
(*                                                                         *)
(* Strings are sequences of one-character strings, so that trim,           *)
(* toLowerCase, includes and template concatenation are computed the way   *)
(* the code computes them.  A JavaScript value is a record tagged with its *)
(* typeof: Str, Bool, Null, Undef, Obj.                                    *)
(***************************************************************************)
EXTENDS Integers, Sequences, FiniteSets, TLC

VARIABLES
    profileStore,   \* table resume_profiles: user id -> row, or NoProfile
    jobStore,       \* table jobs: the set of rows inserted so far
    listing,        \* the job search provider's current postings, per role word
    run,            \* one record per invocation of POST /api/jobs/sync
    hStage,         \* position of the dedupe pipeline run on its own
    hRaw,           \* its raw upstream items
    hJobs,          \* its normalized jobs
    hOut,           \* dedupeNormalizedJobs(hJobs)
    hOut2,          \* dedupeNormalizedJobs(hOut)
    fStage,         \* position of a single function call made on its own
    fIn,            \* its argument(s)
    fOut,           \* its result
    fKept           \* what the handler's filter keeps of the result

vars == <<profileStore, jobStore, listing, run, hStage, hRaw, hJobs, hOut, hOut2,
          fStage, fIn, fOut, fKept>>

FVars == <<fStage, fIn, fOut, fKept>>

(***************************************************************************)
(* Bounds.                                                                 *)
(***************************************************************************)
MaxLen == 3         \* longest list handed to the dedupe pipeline on its own

(***************************************************************************)
(* JavaScript values.                                                      *)
(***************************************************************************)
Str(s)  == [t |-> "string", s |-> s]
Bool(b) == [t |-> "boolean", b |-> b]
Null    == [t |-> "null"]
Undef   == [t |-> "undefined"]
Obj(f)  == [t |-> "object", f |-> f]

\* r.key of a Record<string, unknown>: undefined when the key is missing
Get(r, k) == IF k \in DOMAIN r THEN r[k] ELSE Undef

\* a ?? b
Coalesce(a, b) == IF a.t \in {"null", "undefined"} THEN b ELSE a

\* JavaScript truthiness of the values the model uses
Truthy(v) ==
    CASE v.t = "string"  -> v.s # <<>>
      [] v.t = "boolean" -> v.b
      [] v.t = "object"  -> TRUE
      [] OTHER           -> FALSE

(***************************************************************************)
(* String primitives: String.prototype.trim, toLowerCase, includes.        *)
(***************************************************************************)
IsSpace(c) == c \in {" ", "\t", "\n"}

RECURSIVE TrimStart(_)
TrimStart(s) ==
    IF s = <<>> THEN <<>>
    ELSE IF IsSpace(Head(s)) THEN TrimStart(Tail(s)) ELSE s

RECURSIVE TrimEnd(_)
TrimEnd(s) ==
    IF s = <<>> THEN <<>>
    ELSE IF IsSpace(s[Len(s)]) THEN TrimEnd(SubSeq(s, 1, Len(s) - 1)) ELSE s

trim(s) == TrimEnd(TrimStart(s))

LowerChar(c) ==
    CASE c = "A" -> "a" [] c = "B" -> "b" [] c = "C" -> "c" [] c = "D" -> "d"
      [] c = "E" -> "e" [] c = "F" -> "f" [] c = "G" -> "g" [] c = "H" -> "h"
      [] c = "I" -> "i" [] c = "J" -> "j" [] c = "K" -> "k" [] c = "L" -> "l"
      [] c = "M" -> "m" [] c = "N" -> "n" [] c = "O" -> "o" [] c = "P" -> "p"
      [] c = "Q" -> "q" [] c = "R" -> "r" [] c = "S" -> "s" [] c = "T" -> "t"
      [] c = "U" -> "u" [] c = "V" -> "v" [] c = "W" -> "w" [] c = "X" -> "x"
      [] c = "Y" -> "y" [] c = "Z" -> "z" [] OTHER -> c

\* a comparison that forgot toLowerCase()
toLowerCase_Identity(s) == s

toLowerCase(s) == [i \in 1..Len(s) |-> LowerChar(s[i])]

includes(s, sub) ==
    \E i \in 0..(Len(s) - Len(sub)) : SubSeq(s, i + 1, i + Len(sub)) = sub

(***************************************************************************)
(* src/lib/jobs/normalize.ts                                               *)
(***************************************************************************)
asRecord(v) == IF v.t = "object" THEN v ELSE Null

\* getString without the trim: typeof v === "string" && v ? v : null
getString_NoTrim(v) ==
    IF v.t = "string" /\ v.s # <<>> THEN v ELSE Null

\* getString without the test for an empty result: typeof v === "string" ? v.trim() : null
getString_NoBlankTest(v) ==
    IF v.t = "string" THEN Str(trim(v.s)) ELSE Null

getString(v) ==
    IF v.t = "string" /\ trim(v.s) # <<>> THEN Str(trim(v.s)) ELSE Null

S_remote  == <<"r", "e", "m", "o", "t", "e">>
S_hybrid  == <<"h", "y", "b", "r", "i", "d">>
S_onsite  == <<"o", "n", "s", "i", "t", "e">>
S_on_site == <<"o", "n", "-", "s", "i", "t", "e">>
S_on_site2 == <<"o", "n", " ", "s", "i", "t", "e">>
S_true    == <<"t", "r", "u", "e">>
S_jsearch == <<"j", "s", "e", "a", "r", "c", "h">>

\* inferRemoteType that looks for "hybrid" before it looks at isRemote
inferRemoteType_HybridFirst(isRemote, locationText) ==
    LET t == toLowerCase(Coalesce(locationText, Str(<<>>)).s)
    IN  IF includes(t, S_hybrid) THEN Str(S_hybrid)
        ELSE IF isRemote THEN Str(S_remote)
        ELSE IF includes(t, S_on_site) \/ includes(t, S_onsite) \/ includes(t, S_on_site2)
             THEN Str(S_onsite)
        ELSE Null

\* inferRemoteType that looks for the on-site words before "hybrid"
inferRemoteType_OnsiteFirst(isRemote, locationText) ==
    LET t == toLowerCase(Coalesce(locationText, Str(<<>>)).s)
    IN  IF isRemote THEN Str(S_remote)
        ELSE IF t = <<>> THEN Null
        ELSE IF includes(t, S_on_site) \/ includes(t, S_onsite) \/ includes(t, S_on_site2)
             THEN Str(S_onsite)
        ELSE IF includes(t, S_hybrid) THEN Str(S_hybrid)
        ELSE Null

inferRemoteType(isRemote, locationText) ==
    LET t == toLowerCase(Coalesce(locationText, Str(<<>>)).s)
    IN  IF isRemote THEN Str(S_remote)
        ELSE IF t = <<>> THEN Null
        ELSE IF includes(t, S_hybrid) THEN Str(S_hybrid)
        ELSE IF includes(t, S_on_site) \/ includes(t, S_onsite) \/ includes(t, S_on_site2)
             THEN Str(S_onsite)
        ELSE Null

\* The columns whose value needs Date or Number parsing (posted_at,
\* salary_min, salary_max) are not modelled; they take no part in the key.
normalizeJSearchJob(item) ==
    LET rec == asRecord(item) IN
    IF ~Truthy(rec) THEN Null
    ELSE
    LET r == rec.f
        title == getString(Get(r, "job_title"))
    IN
    IF ~Truthy(title) THEN Null
    ELSE
    LET externalJobId ==
            Coalesce(getString(Get(r, "job_id")),
            Coalesce(getString(Get(r, "id")),
                     getString(Get(r, "job_google_link"))))
        applyUrl ==
            Coalesce(getString(Get(r, "job_apply_link")),
            Coalesce(getString(Get(r, "job_apply_link_direct")),
                     getString(Get(r, "job_google_link"))))
        locationText ==
            Coalesce(getString(Get(r, "job_location")),
            Coalesce(getString(Get(r, "job_city")),
                     getString(Get(r, "job_country"))))
        flag == Get(r, "job_is_remote")
        isRemoteRaw ==
            \/ (flag.t = "boolean" /\ flag.b)
            \/ (flag.t = "string" /\ toLowerCase(flag.s) = S_true)
        isRemote ==
            \/ isRemoteRaw
            \/ IF Truthy(locationText)
               THEN includes(toLowerCase(locationText.s), S_remote)
               ELSE FALSE
    IN  [ t                |-> "object",
          source           |-> Str(S_jsearch),
          external_job_id  |-> externalJobId,
          apply_url        |-> applyUrl,
          title            |-> title,
          company_name     |-> Coalesce(getString(Get(r, "employer_name")),
                                        getString(Get(r, "company_name"))),
          company_website  |-> Coalesce(getString(Get(r, "employer_website")),
                                        getString(Get(r, "company_website"))),
          location_text    |-> locationText,
          country          |-> getString(Get(r, "job_country")),
          city             |-> getString(Get(r, "job_city")),
          region           |-> Coalesce(getString(Get(r, "job_state")),
                                        getString(Get(r, "job_region"))),
          is_remote        |-> isRemote,
          remote_type      |-> inferRemoteType(isRemote, locationText),
          employment_type  |-> Coalesce(getString(Get(r, "job_employment_type")),
                                        getString(Get(r, "job_employment_types"))),
          description      |-> getString(Get(r, "job_description")),
          salary_currency  |-> getString(Get(r, "job_salary_currency")),
          salary_period    |-> getString(Get(r, "job_salary_period")),
          raw              |-> r ]

S_id_tag  == <<":", ":", "i", "d", ":", ":">>
S_url_tag == <<":", ":", "u", "r", "l", ":", ":">>

getJobDedupeKey(job) ==
    IF Truthy(job.external_job_id)
    THEN Str(job.source.s \o S_id_tag \o job.external_job_id.s)
    ELSE IF Truthy(job.apply_url)
    THEN Str(job.source.s \o S_url_tag \o job.apply_url.s)
    ELSE Null

\* DedupeStep without the seen.has(key) test
DedupeStep_NoSeenTest(acc, j) ==
    LET key == getJobDedupeKey(j) IN
    IF ~Truthy(key) THEN acc
    ELSE [seen |-> acc.seen \cup {key.s}, out |-> Append(acc.out, j)]

\* DedupeStep where a later record with a seen key takes the earlier one's place
DedupeStep_KeepLast(acc, j) ==
    LET key == getJobDedupeKey(j) IN
    IF ~Truthy(key) THEN acc
    ELSE IF key.s \in acc.seen
    THEN [acc EXCEPT !.out = [i \in 1..Len(acc.out) |->
                                IF getJobDedupeKey(acc.out[i]) = key THEN j ELSE acc.out[i]]]
    ELSE [seen |-> acc.seen \cup {key.s}, out |-> Append(acc.out, j)]

\* DedupeStep with out.unshift(j) for out.push(j)
DedupeStep_Unshift(acc, j) ==
    LET key == getJobDedupeKey(j) IN
    IF ~Truthy(key) THEN acc
    ELSE IF key.s \in acc.seen THEN acc
    ELSE [seen |-> acc.seen \cup {key.s}, out |-> <<j>> \o acc.out]

\* DedupeStep without the continue on a record that has no key
DedupeStep_KeepUnkeyed(acc, j) ==
    LET key == getJobDedupeKey(j) IN
    IF ~Truthy(key) THEN [acc EXCEPT !.out = Append(@, j)]
    ELSE IF key.s \in acc.seen THEN acc
    ELSE [seen |-> acc.seen \cup {key.s}, out |-> Append(acc.out, j)]

\* DedupeStep that skips every record without external_job_id
DedupeStep_IdOnly(acc, j) ==
    LET key == getJobDedupeKey(j) IN
    IF ~Truthy(j.external_job_id) THEN acc
    ELSE IF key.s \in acc.seen THEN acc
    ELSE [seen |-> acc.seen \cup {key.s}, out |-> Append(acc.out, j)]

\* one iteration of the for loop of dedupeNormalizedJobs, on accumulator
\* acc = [seen, out]
DedupeStep(acc, j) ==
    LET key == getJobDedupeKey(j) IN
    IF ~Truthy(key) THEN acc
    ELSE IF key.s \in acc.seen THEN acc
    ELSE [seen |-> acc.seen \cup {key.s}, out |-> Append(acc.out, j)]

RECURSIVE DedupeLoop(_, _)
DedupeLoop(acc, jobs) ==
    IF jobs = <<>> THEN acc
    ELSE DedupeLoop(DedupeStep(acc, Head(jobs)), Tail(jobs))

dedupeNormalizedJobs(jobs) == DedupeLoop([seen |-> {}, out |-> <<>>], jobs).out

\* rawItems.map(normalizeJSearchJob).filter(Boolean)
RECURSIVE NormalizeBatch(_)
NormalizeBatch(items) ==
    IF items = <<>> THEN <<>>
    ELSE LET n == normalizeJSearchJob(Head(items))
         IN  IF Truthy(n) THEN <<n>> \o NormalizeBatch(Tail(items))
             ELSE NormalizeBatch(Tail(items))

(***************************************************************************)
(* Upstream items and handwritten jobs the inputs are drawn from.          *)
(***************************************************************************)
S_j1 == <<"j", "1">>
S_j2 == <<"j", "2">>
S_u1 == <<"u", "1">>
S_u2 == <<"u", "2">>

RawFirst  == Obj([job_title |-> Str(<<"T", "1">>), job_id |-> Str(S_j1),
                  employer_name |-> Str(<<"X">>)])
RawSecond == Obj([job_title |-> Str(<<"T", "2">>), job_id |-> Str(S_j1),
                  job_apply_link |-> Str(S_u2), job_location |-> Str(<<"R", "e", "m", "o", "t", "e">>)])
RawPadded == Obj([job_title |-> Str(<<"T", "7">>), job_id |-> Str(<<" ", "j", "2", " ">>)])
RawUrl    == Obj([job_title |-> Str(<<"T", "3">>), job_apply_link |-> Str(S_u1)])
RawIdUrl  == Obj([job_title |-> Str(<<"T", "4">>), id |-> Str(S_j2),
                  job_apply_link |-> Str(S_u1)])
RawGoogle == Obj([job_title |-> Str(<<"T", "5">>), job_google_link |-> Str(S_u1)])
RawNoKey  == Obj([job_title |-> Str(<<"T", "6">>), job_id |-> Str(<<" ">>)])
RawBlank  == Obj([job_title |-> Str(<<" ">>), job_id |-> Str(<<"j", "3">>)])
RawNotObj == Str(<<"x">>)

RawPool == {RawFirst, RawSecond, RawPadded, RawUrl, RawIdUrl, RawGoogle,
            RawNoKey, RawBlank, RawNotObj, Null}

\* a NormalizedJobInsert the type allows and normalizeJSearchJob never
\* builds: an empty-string id
JobEmptyId == [normalizeJSearchJob(RawUrl) EXCEPT !.external_job_id = Str(<<>>),
                                                  !.title = Str(<<"T", "8">>)]
JobEmptyBoth == [JobEmptyId EXCEPT !.apply_url = Str(<<>>)]

JobPool == {normalizeJSearchJob(it) : it \in {RawFirst, RawSecond, RawUrl, RawGoogle, RawNoKey}}
           \cup {JobEmptyId, JobEmptyBoth}

SeqsUpTo(S, n) == UNION {[1..k -> S] : k \in 0..n}

(***************************************************************************)
(* src/app/api/jobs/sync/route.ts: pure helpers.                           *)
(***************************************************************************)
MaxRolesPicked == 3

Arr(a) == [t |-> "array", a |-> a]

Min(a, b) == IF a < b THEN a ELSE b

NonEmpty(s) == Len(s) > 0

\* pickRoles with roles.slice(0, 4)
pickRoles_SliceFour(raw) ==
    LET list   == IF raw.t = "array" THEN raw.a ELSE <<>>
        mapped == [i \in 1..Len(list) |->
                     IF list[i].t = "string" THEN trim(list[i].s) ELSE <<>>]
        roles  == SelectSeq(mapped, NonEmpty)
    IN  SubSeq(roles, 1, Min(MaxRolesPicked + 1, Len(roles)))

\* pickRoles without the trim
pickRoles_NoTrim(raw) ==
    LET list   == IF raw.t = "array" THEN raw.a ELSE <<>>
        mapped == [i \in 1..Len(list) |->
                     IF list[i].t = "string" THEN list[i].s ELSE <<>>]
        roles  == SelectSeq(mapped, NonEmpty)
    IN  SubSeq(roles, 1, Min(MaxRolesPicked, Len(roles)))

pickRoles(raw) ==
    LET list   == IF raw.t = "array" THEN raw.a ELSE <<>>
        mapped == [i \in 1..Len(list) |->
                     IF list[i].t = "string" THEN trim(list[i].s) ELSE <<>>]
        roles  == SelectSeq(mapped, NonEmpty)
    IN  SubSeq(roles, 1, Min(MaxRolesPicked, Len(roles)))

S_sp_remote_in == <<" ", "r", "e", "m", "o", "t", "e", " ", "i", "n", " ">>
S_sp_remote    == <<" ", "r", "e", "m", "o", "t", "e">>
S_sp_in        == <<" ", "i", "n", " ">>

\* buildQuery that tests the location before it tests wantsRemote
buildQuery_LocationFirst(role, locationPref, remoteIntent) ==
    LET loc         == trim(Coalesce(locationPref, Str(<<>>)).s)
        remote      == toLowerCase(Coalesce(remoteIntent, Str(<<>>)).s)
        wantsRemote == includes(remote, S_remote)
    IN  IF loc # <<>> THEN role \o S_sp_in \o loc
        ELSE IF wantsRemote THEN role \o S_sp_remote
        ELSE role

buildQuery(role, locationPref, remoteIntent) ==
    LET loc         == trim(Coalesce(locationPref, Str(<<>>)).s)
        remote      == toLowerCase(Coalesce(remoteIntent, Str(<<>>)).s)
        wantsRemote == includes(remote, S_remote)
    IN  IF wantsRemote /\ loc # <<>> THEN role \o S_sp_remote_in \o loc
        ELSE IF wantsRemote THEN role \o S_sp_remote
        ELSE IF loc # <<>> THEN role \o S_sp_in \o loc
        ELSE role

(***************************************************************************)
(* The collaborators and the data the runs are drawn from.                 *)
(***************************************************************************)
Users == {"u1", "u2"}
Runs  == {"r1", "r2"}

ProfFour  == [roles |-> Arr(<<Str(<<" ", "A">>), Str(<<>>), Str(<<"B">>), Null,
                              Str(<<"C", " ">>), Str(<<"D">>)>>),
              location_preference |-> Str(<<" ", "N", "Y">>),
              remote_intent |-> Str(<<"R", "e", "m", "o", "t", "e", " ", "O", "K">>)]
ProfOne   == [roles |-> Arr(<<Str(<<"A">>)>>),
              location_preference |-> Null, remote_intent |-> Null]
ProfBlank == [roles |-> Arr(<<Str(<<" ">>), Null, Str(<<>>)>>),
              location_preference |-> Str(<<"N", "Y">>), remote_intent |-> Null]
ProfNullRoles == [roles |-> Null,
              location_preference |-> Null, remote_intent |-> Str(S_remote)]

\* NoProfile: maybeSingle() found no row
NoProfile == Null
ProfilePool == {ProfFour, ProfOne, ProfBlank, ProfNullRoles, NoProfile}

ListingV1 == [A |-> <<RawFirst, RawUrl>>,
              B |-> <<RawSecond, RawNotObj>>,
              C |-> <<RawNoKey, RawBlank, RawPadded>>,
              D |-> <<RawGoogle>>]
ListingV2 == [A |-> <<RawSecond, RawFirst, RawIdUrl>>,
              B |-> <<RawSecond, RawNotObj>>,
              C |-> <<RawNoKey, RawBlank>>,
              D |-> <<RawGoogle>>]

RECURSIVE FirstWord(_)
FirstWord(q) ==
    IF q = <<>> \/ Head(q) = " " THEN "" ELSE Head(q) \o FirstWord(Tail(q))

\* the provider's answer to a query: the postings listed under its role word
Search(q) ==
    IF FirstWord(q) \in DOMAIN listing THEN listing[FirstWord(q)] ELSE <<>>

\* the unique key of table jobs: (user_id, source, external_job_id | apply_url)
StoreKey(row) == <<row.user_id, getJobDedupeKey(row.job)>>

\* the store's answer to insert(payload): the Postgres code of its error,
\* "ok" when the row is written
StoreInsert(payload) ==
    IF \E row \in jobStore : StoreKey(row) = StoreKey(payload) THEN "23505" ELSE "ok"

(***************************************************************************)
(* POST /api/jobs/sync: one step per await.                                *)
(***************************************************************************)
NoSummary == [ok |-> FALSE]

Response(status, error, summary) ==
    [status |-> status, error |-> error, summary |-> summary]

NoResponse == Response(0, "", NoSummary)

NewRun ==
    [ pc |-> "auth", userId |-> "", profile |-> NoProfile,
      roles |-> <<>>, rawItems |-> <<>>,
      normalized |-> <<>>, deduped |-> <<>>,
      \* what the collaborators were asked and answered, in call order
      after |-> {},          \* the runs that had returned when this one began
      auth |-> "",           \* getUser: "ok", "unauthorized"
      lookup |-> "",         \* the profile query: "row", "error"
      queries |-> <<>>,      \* the searches sent to the provider
      itemsReturned |-> 0,   \* how many items its answers held, all told
      fetchFailed |-> 0,     \* which search the provider failed, 0: none
      attempted |-> <<>>,    \* the jobs handed to the store's insert
      answers |-> <<>>,      \* the store's answer to each
      \* the counter the loop incremented for each attempt, and the counters
      outcomes |-> <<>>,
      inserted |-> 0, skippedDuplicates |-> 0, failed |-> 0,
      response |-> NoResponse ]

Init ==
    /\ profileStore \in [Users -> ProfilePool]
    /\ jobStore = {}
    /\ listing = ListingV1
    /\ run = [r \in Runs |-> NewRun]
    /\ hStage = "off"
    /\ hRaw = <<>>
    /\ hJobs = <<>>
    /\ hOut = <<>>
    /\ hOut2 = <<>>
    /\ fStage = "off"
    /\ fIn = <<>>
    /\ fOut = <<>>
    /\ fKept = <<>>

HVars == <<hStage, hRaw, hJobs, hOut, hOut2, fStage, fIn, fOut, fKept>>

\* return NextResponse.json({ error }, { status })
Fail(st, status, error) ==
    [st EXCEPT !.pc = "done", !.response = Response(status, error, NoSummary)]

\* return NextResponse.json({ ok: true, ... })
Summary(st) ==
    [ ok                 |-> TRUE,
      user_id            |-> st.userId,
      roles_used         |-> st.roles,
      fetched_items      |-> Len(st.rawItems),
      normalized_items   |-> Len(st.normalized),
      deduped_items      |-> Len(st.deduped),
      inserted           |-> st.inserted,
      skipped_duplicates |-> st.skippedDuplicates,
      failed             |-> st.failed ]

Succeed(st) ==
    [st EXCEPT !.pc = "done", !.response = Response(200, "", Summary(st))]

\* the runs that have returned
Done == {r \in Runs : run[r].pc = "done"}

\* getEnv throws before getUser is called
AuthMissingEnv(r) ==
    /\ run[r].pc = "auth"
    /\ run' = [run EXCEPT ![r] = Fail([@ EXCEPT !.after = Done], 500, "Missing env var")]
    /\ UNCHANGED <<profileStore, jobStore, listing, HVars>>

\* getUser returns an error or no user
AuthUnauthorized(r) ==
    /\ run[r].pc = "auth"
    /\ run' = [run EXCEPT ![r] = Fail([@ EXCEPT !.after = Done, !.auth = "unauthorized"], 401, "Unauthorized")]
    /\ UNCHANGED <<profileStore, jobStore, listing, HVars>>

AuthOk(r, u) ==
    /\ run[r].pc = "auth"
    /\ run' = [run EXCEPT ![r] = [@ EXCEPT !.after = Done, !.auth = "ok", !.userId = u, !.pc = "profile"]]
    /\ UNCHANGED <<profileStore, jobStore, listing, HVars>>

\* getEnv("SUPABASE_SERVICE_ROLE_KEY") throws
ProfileMissingEnv(r) ==
    /\ run[r].pc = "profile"
    /\ run' = [run EXCEPT ![r] = Fail(@, 500, "Missing env var")]
    /\ UNCHANGED <<profileStore, jobStore, listing, HVars>>

\* the profile query returns an error
ProfileError(r) ==
    /\ run[r].pc = "profile"
    /\ run' = [run EXCEPT ![r] = Fail([@ EXCEPT !.lookup = "error"], 500, "profileErr")]
    /\ UNCHANGED <<profileStore, jobStore, listing, HVars>>

\* what the handler does with the row the profile query returned
WithProfile(st, profile) ==
    IF profile = NoProfile
    THEN Fail(st, 404, "No resume profile found for user")
    ELSE LET roles == pickRoles(Coalesce(profile.roles, Arr(<<>>)))
         IN  IF Len(roles) = 0
             THEN Fail(st, 400, "Profile roles[] is empty")
             ELSE [st EXCEPT !.profile = profile, !.roles = roles, !.pc = "fetch"]

LoadProfile(r) ==
    /\ run[r].pc = "profile"
    /\ run' = [run EXCEPT ![r] = WithProfile([@ EXCEPT !.lookup = "row"],
                                              profileStore[run[r].userId])]
    /\ UNCHANGED <<profileStore, jobStore, listing, HVars>>

\* the query of the next role of the for loop over roles
NextQuery(st) ==
    buildQuery(st.roles[Len(st.queries) + 1],
               st.profile.location_preference, st.profile.remote_intent)

\* rawItems.push(...items); after the last role: normalize, dedupe, and
\* return the summary at once when nothing is left to insert
AfterFetch(st, q, items) ==
    LET st1 == [st EXCEPT !.queries = Append(@, q), !.rawItems = @ \o items]
    IN  IF Len(st1.queries) < Len(st1.roles) THEN st1
        ELSE LET normalized == NormalizeBatch(st1.rawItems)
                 deduped    == dedupeNormalizedJobs(normalized)
                 st2 == [st1 EXCEPT !.normalized = normalized, !.deduped = deduped]
             IN  IF deduped = <<>> THEN Succeed(st2)
                 ELSE [st2 EXCEPT !.pc = "insert"]

\* a fetch failure taken for an empty result
OnFetchThrow_Swallow(st, q, error) == AfterFetch(st, q, <<>>)

\* a catch around the search that leaves the loop at the same role, to
\* search for it again
OnFetchThrow_Retry(st, q, error) == st

\* fetchJSearchJobs throws after the request was sent; POST's catch answers 500
OnFetchThrow(st, q, error) ==
    Fail([st EXCEPT !.queries = Append(@, q)], 500, error)

\* the provider's answer to a search arrives with its items
Answered(st, items) == [st EXCEPT !.itemsReturned = st.itemsReturned + Len(items)]

FetchOk(r) ==
    /\ run[r].pc = "fetch"
    /\ run' = [run EXCEPT ![r] = AfterFetch(Answered(run[r], Search(NextQuery(run[r]))),
                                            NextQuery(run[r]), Search(NextQuery(run[r])))]
    /\ UNCHANGED <<profileStore, jobStore, listing, HVars>>

\* the provider answers with a non-success status, or with a body that
\* JSON.parse rejects
FetchThrow(r, error) ==
    /\ run[r].pc = "fetch"
    /\ run' = [run EXCEPT ![r] = OnFetchThrow([@ EXCEPT !.fetchFailed = Len(run[r].queries) + 1],
                                               NextQuery(@), error)]
    /\ UNCHANGED <<profileStore, jobStore, listing, HVars>>

\* getEnv("RAPIDAPI_KEY") throws before the request is sent
FetchMissingEnv(r) ==
    /\ run[r].pc = "fetch"
    /\ run' = [run EXCEPT ![r] = Fail(@, 500, "Missing env var")]
    /\ UNCHANGED <<profileStore, jobStore, listing, HVars>>

\* Outcome with a unique violation taken for a success
Outcome_DuplicateAsInserted(code) ==
    IF code \in {"ok", "23505"} THEN "inserted" ELSE "failed"

\* Outcome without the code === "23505" test
Outcome_DuplicateAsFailed(code) ==
    IF code = "ok" THEN "inserted" ELSE "failed"

\* which counter the loop body increments for the store's answer
Outcome(code) ==
    IF code = "ok" THEN "inserted"
    ELSE IF code = "23505" THEN "duplicate"
    ELSE "failed"

\* the loop body once the store has answered
\* Counted without the continue after skippedDuplicates += 1
Counted_NoContinue(st, code) ==
    [st EXCEPT
       !.outcomes  = Append(@, Outcome(code)),
       !.inserted  = IF Outcome(code) = "inserted" THEN @ + 1 ELSE @,
       !.skippedDuplicates = IF Outcome(code) = "duplicate" THEN @ + 1 ELSE @,
       !.failed    = IF Outcome(code) \in {"duplicate", "failed"} THEN @ + 1 ELSE @]

Counted(st, code) ==
    [st EXCEPT
       !.outcomes  = Append(@, Outcome(code)),
       !.inserted  = IF Outcome(code) = "inserted" THEN @ + 1 ELSE @,
       !.skippedDuplicates = IF Outcome(code) = "duplicate" THEN @ + 1 ELSE @,
       !.failed    = IF Outcome(code) = "failed" THEN @ + 1 ELSE @]

\* AfterInsert with a break after an insert the store did not carry out
AfterInsert_BreakOnError(st, code) ==
    LET st1 == Counted(st, code)
    IN  IF code = "ok" /\ Len(st1.attempted) < Len(st1.deduped) THEN st1
        ELSE Succeed(st1)

\* AfterInsert with a throw on an error that is no unique violation
AfterInsert_ThrowOnFailure(st, code) ==
    LET st1 == Counted(st, code)
    IN  IF code \notin {"ok", "23505"} THEN Fail(st1, 500, "insert failed")
        ELSE IF Len(st1.attempted) < Len(st1.deduped) THEN st1
        ELSE Succeed(st1)

\* the loop body once the store has answered, and the return after the
\* last record
AfterInsert(st, code) ==
    LET st1 == Counted(st, code)
    IN  IF Len(st1.attempted) < Len(st1.deduped) THEN st1 ELSE Succeed(st1)

\* the record of the current iteration of for (const j of deduped)
NextJob(st) == st.deduped[Len(st.attempted) + 1]

Payload(st) == [user_id |-> st.userId, job |-> NextJob(st)]

\* the call supabaseAdmin.from("jobs").insert(payload) and its answer
Asked(st, code) ==
    [st EXCEPT !.attempted = Append(@, NextJob(st)), !.answers = Append(@, code)]

\* the store carries out the insert: the row is written, or the unique
\* key rejects it
InsertAnswered(r) ==
    /\ run[r].pc = "insert"
    /\ LET code == StoreInsert(Payload(run[r]))
       IN  /\ jobStore' = IF code = "ok" THEN jobStore \cup {Payload(run[r])} ELSE jobStore
           /\ run' = [run EXCEPT ![r] = AfterInsert(Asked(@, code), code)]
    /\ UNCHANGED <<profileStore, listing, HVars>>

\* the store fails the insert for another reason and writes nothing
InsertOtherFailure(r) ==
    /\ run[r].pc = "insert"
    /\ run' = [run EXCEPT ![r] = AfterInsert(Asked(@, "XX000"), "XX000")]
    /\ UNCHANGED <<profileStore, jobStore, listing, HVars>>

\* the provider's postings change
Publish ==
    /\ listing = ListingV1
    /\ hStage = "off"
    /\ listing' = ListingV2
    /\ UNCHANGED <<profileStore, jobStore, run, HVars>>

FetchErrors == {"JSearch failed", "Unexpected token"}

Next ==
    \/ \E r \in Runs :
          \/ AuthMissingEnv(r)
          \/ AuthUnauthorized(r)
          \/ \E u \in Users : AuthOk(r, u)
          \/ ProfileMissingEnv(r)
          \/ ProfileError(r)
          \/ LoadProfile(r)
          \/ FetchOk(r)
          \/ \E e \in FetchErrors : FetchThrow(r, e)
          \/ FetchMissingEnv(r)
          \/ InsertAnswered(r)
          \/ InsertOtherFailure(r)
    \/ Publish

Spec == Init /\ [][Next]_vars

(***************************************************************************)
(* The dedupe pipeline on its own: normalize a batch (or take a list of    *)
(* jobs as given), dedupe it, dedupe the result again.                     *)
(***************************************************************************)
HInit ==
    /\ hStage = "start"
    /\ hRaw \in SeqsUpTo(RawPool, MaxLen)
    /\ hJobs = <<>>
    /\ hOut = <<>>
    /\ hOut2 = <<>>
    /\ fStage = "off"
    /\ fIn = <<>>
    /\ fOut = <<>>
    /\ fKept = <<>>
    /\ profileStore = [u \in Users |-> NoProfile]
    /\ jobStore = {}
    /\ listing = ListingV1
    /\ run = [r \in Runs |-> NewRun]

HNormalize ==
    /\ hStage = "start"
    /\ hJobs' = NormalizeBatch(hRaw)
    /\ hStage' = "jobs"
    /\ UNCHANGED <<hRaw, hOut, hOut2, profileStore, jobStore, listing, run, FVars>>

HGiven ==
    /\ hStage = "start"
    /\ hRaw = <<>>
    /\ hJobs' \in SeqsUpTo(JobPool, MaxLen)
    /\ hStage' = "jobs"
    /\ UNCHANGED <<hRaw, hOut, hOut2, profileStore, jobStore, listing, run, FVars>>

HDedupe ==
    /\ hStage = "jobs"
    /\ hOut' = dedupeNormalizedJobs(hJobs)
    /\ hStage' = "deduped"
    /\ UNCHANGED <<hRaw, hJobs, hOut2, profileStore, jobStore, listing, run, FVars>>

HDedupeAgain ==
    /\ hStage = "deduped"
    /\ hOut2' = dedupeNormalizedJobs(hOut)
    /\ hStage' = "again"
    /\ UNCHANGED <<hRaw, hJobs, hOut, profileStore, jobStore, listing, run, FVars>>

HNext == HNormalize \/ HGiven \/ HDedupe \/ HDedupeAgain

SpecDedupe == HInit /\ [][HNext]_vars

(***************************************************************************)
(* Claims about dedupeNormalizedJobs, checked under SpecDedupe.            *)
(***************************************************************************)
Deduped == hStage \in {"deduped", "again"}

\* C1: the output of dedupeNormalizedJobs holds no two records with the
\* same dedupe key (and every record of it has one).
C1_DedupeKeysUnique ==
    Deduped =>
        /\ \A i \in 1..Len(hOut) : Truthy(getJobDedupeKey(hOut[i]))
        /\ \A i, k \in 1..Len(hOut) :
              i # k => getJobDedupeKey(hOut[i]) # getJobDedupeKey(hOut[k])

\* the input held two records with one key, and two records were kept
C1_Witness ==
    /\ hStage = "deduped"
    /\ Len(hOut) >= 2
    /\ \E i, k \in 1..Len(hJobs) :
          /\ i < k
          /\ Truthy(getJobDedupeKey(hJobs[i]))
          /\ getJobDedupeKey(hJobs[i]) = getJobDedupeKey(hJobs[k])
          /\ hJobs[i] # hJobs[k]

\* index of the first record of jobs whose dedupe key is key
FirstWithKey(jobs, key) ==
    CHOOSE i \in 1..Len(jobs) :
        /\ getJobDedupeKey(jobs[i]) = key
        /\ \A k \in 1..(i - 1) : getJobDedupeKey(jobs[k]) # key

\* index of the first raw item that normalizes to a job with external id id
FirstRawWithId(items, id) ==
    CHOOSE i \in 1..Len(items) :
        /\ Truthy(normalizeJSearchJob(items[i]))
        /\ normalizeJSearchJob(items[i]).external_job_id = id
        /\ \A k \in 1..(i - 1) :
              ~(/\ Truthy(normalizeJSearchJob(items[k]))
                /\ normalizeJSearchJob(items[k]).external_job_id = id)

\* C9: the output of dedupeNormalizedJobs is a subsequence of its input,
\* the record kept for a key is the earliest input record with that key,
\* and of raw records with one job_id, normalization followed by dedup
\* keeps the first only.
C9_FirstOccurrenceWins ==
    Deduped =>
        /\ \E f \in [1..Len(hOut) -> 1..Len(hJobs)] :
              /\ \A i \in 1..Len(hOut) : hOut[i] = hJobs[f[i]]
              /\ \A i, k \in 1..Len(hOut) : i < k => f[i] < f[k]
        /\ \A i \in 1..Len(hOut) :
              hOut[i] = hJobs[FirstWithKey(hJobs, getJobDedupeKey(hOut[i]))]
        /\ \A a, b \in 1..Len(hRaw) :
              (/\ a < b
               /\ Truthy(normalizeJSearchJob(hRaw[a]))
               /\ Truthy(normalizeJSearchJob(hRaw[b]))
               /\ Truthy(getString(Get(hRaw[a].f, "job_id")))
               /\ getString(Get(hRaw[a].f, "job_id")) = getString(Get(hRaw[b].f, "job_id")))
              => LET id == getString(Get(hRaw[a].f, "job_id"))
                     kept == {i \in 1..Len(hOut) : hOut[i].external_job_id = id}
                 IN  /\ Cardinality(kept) = 1
                     /\ \A i \in kept :
                           hOut[i] = normalizeJSearchJob(hRaw[FirstRawWithId(hRaw, id)])

\* two raw records with one job_id and different other fields were
\* normalized and deduped, and a record with another key follows them
C9_Witness ==
    /\ hStage = "deduped"
    /\ Len(hOut) >= 2
    /\ \E a, b \in 1..Len(hRaw) :
          /\ a < b
          /\ Truthy(normalizeJSearchJob(hRaw[a]))
          /\ Truthy(normalizeJSearchJob(hRaw[b]))
          /\ Truthy(getString(Get(hRaw[a].f, "job_id")))
          /\ getString(Get(hRaw[a].f, "job_id")) = getString(Get(hRaw[b].f, "job_id"))
          /\ normalizeJSearchJob(hRaw[a]).title # normalizeJSearchJob(hRaw[b]).title
          /\ hOut[1] = normalizeJSearchJob(hRaw[a])

\* C10: dedupeNormalizedJobs is idempotent, dedupe(dedupe(xs)) = dedupe(xs).
C10_DedupeIdempotent ==
    hStage = "again" => hOut2 = hOut

\* a list that lost a record to dedupe and kept two was deduped again
C10_Witness ==
    /\ hStage = "again"
    /\ Len(hOut) >= 2
    /\ Len(hOut) < Len(hJobs)

(***************************************************************************)
(* Claims about the sync runs, checked under Spec.                         *)
(***************************************************************************)
Returned(r) == run[r].pc = "done"
GaveSummary(r) == Returned(r) /\ run[r].response.summary.ok

\* the insert attempts made so far, as <<run, position in its loop>>
Attempts == UNION {{<<r, i>> : i \in 1..Len(run[r].attempted)} : r \in Runs}

RowOf(a) == [user_id |-> run[a[1]].userId, job |-> run[a[1]].attempted[a[2]]]
CountedAs(a) == run[a[1]].outcomes[a[2]]
AnswerTo(a) == run[a[1]].answers[a[2]]

CountOf(seq, S) == Cardinality({i \in 1..Len(seq) : seq[i] \in S})

StoreFailures == {"XX000"}

\* C2 (as claimed): runs of one user are not excluded from one another,
\* the store never holds two rows with one key, at most one attempt per
\* key is counted as inserted, and every other attempt at a key that a run
\* inserted is counted as a skipped duplicate.
C2_Original ==
    /\ \A x, y \in jobStore : StoreKey(x) = StoreKey(y) => x = y
    /\ \A a, b \in Attempts :
          (/\ a # b
           /\ StoreKey(RowOf(a)) = StoreKey(RowOf(b))
           /\ CountedAs(a) = "inserted")
          => CountedAs(b) = "duplicate"

\* C2 (amended): under every interleaving the store never holds two rows
\* with one key, at most one attempt per key is counted as inserted, and
\* every other attempt at that key is counted as a skipped duplicate
\* unless the store fails it for another reason, when it is counted as
\* failed.
C2_OneInsertPerKey ==
    /\ \A x, y \in jobStore : StoreKey(x) = StoreKey(y) => x = y
    /\ \A a, b \in Attempts :
          (/\ a # b
           /\ StoreKey(RowOf(a)) = StoreKey(RowOf(b))
           /\ CountedAs(a) = "inserted")
          => /\ CountedAs(b) \in {"duplicate", "failed"}
             /\ CountedAs(b) = "failed" => AnswerTo(b) \in StoreFailures
    /\ \A a \in Attempts :
          /\ CountedAs(a) = "inserted" => RowOf(a) \in jobStore
          /\ CountedAs(a) = "duplicate" =>
                \E x \in jobStore : StoreKey(x) = StoreKey(RowOf(a))

\* two runs of one user interleaved their inserts: each wrote a row that
\* the other was refused
C2_Witness ==
    \E a, b, c, d \in Attempts :
        /\ a[1] # b[1] /\ c[1] = b[1] /\ d[1] = a[1]
        /\ run[a[1]].userId = run[b[1]].userId
        /\ StoreKey(RowOf(a)) = StoreKey(RowOf(b))
        /\ CountedAs(a) = "inserted" /\ CountedAs(b) = "duplicate"
        /\ StoreKey(RowOf(c)) = StoreKey(RowOf(d))
        /\ CountedAs(c) = "inserted" /\ CountedAs(d) = "duplicate"

\* run b repeats run a: same user, same profile, same upstream results,
\* begun after a returned, and both returned a summary
Repeats(b, a) ==
    /\ a # b
    /\ a \in run[b].after
    /\ GaveSummary(a) /\ GaveSummary(b)
    /\ run[a].userId = run[b].userId
    /\ run[a].profile = run[b].profile
    /\ run[a].rawItems = run[b].rawItems

RowsWritten(r) ==
    {RowOf(<<r, i>>) : i \in {k \in 1..Len(run[r].answers) : run[r].answers[k] = "ok"}}

C4_EveryRecordAttempted ==
    \A r \in Runs :
        /\ Len(run[r].attempted) <= Len(run[r].deduped)
        /\ run[r].attempted = SubSeq(run[r].deduped, 1, Len(run[r].attempted))
        /\ Len(run[r].answers) = Len(run[r].attempted)
        /\ Returned(r) => run[r].attempted = run[r].deduped
        /\ run[r].inserted = CountOf(run[r].answers, {"ok"})
        /\ run[r].skippedDuplicates = CountOf(run[r].answers, {"23505"})
        /\ run[r].failed = CountOf(run[r].answers, StoreFailures)

\* a run was refused its first record as a duplicate, had the second
\* failed by the store, and still inserted the third
C4_Witness ==
    \E r \in Runs :
        /\ GaveSummary(r)
        /\ run[r].answers = <<"23505", "XX000", "ok">>

\* C5: a provider failure for any one role query ends the run with a 500
\* error response: no summary, nothing normalized, deduped or inserted,
\* and no further search.
C5_UpstreamFailureAborts ==
    \A r \in Runs :
        run[r].fetchFailed > 0 =>
            /\ Returned(r)
            /\ run[r].response.status = 500
            /\ ~run[r].response.summary.ok
            /\ run[r].response.error \in {"JSearch failed", "Unexpected token"}
            /\ run[r].fetchFailed = Len(run[r].queries)
            /\ run[r].normalized = <<>>
            /\ run[r].deduped = <<>>
            /\ run[r].attempted = <<>>

\* one run lost its middle query and another its last, after the earlier
\* queries of each had returned items
C5_Witness ==
    \E a, b \in Runs :
        /\ Len(run[a].roles) = 3 /\ run[a].fetchFailed = 2 /\ Len(run[a].rawItems) > 0
        /\ Len(run[b].roles) = 3 /\ run[b].fetchFailed = 3 /\ Len(run[b].rawItems) > 2

\* C6 (as claimed): a run fails as a whole only on authentication or
\* profile-lookup errors.  The profile query's own error is read as a
\* profile-lookup error and a missing environment variable is set aside.
C6_Original ==
    \A r \in Runs :
        Returned(r) =>
            \/ run[r].response.summary.ok
            \/ run[r].response.error \in
                  {"Unauthorized", "No resume profile found for user",
                   "Profile roles[] is empty", "profileErr", "Missing env var"}

\* C6 (amended): a run fails as a whole only on authentication or
\* profile-lookup errors, on a provider failure for one of its queries, or
\* on a missing environment variable, each before any insert; in every
\* other case, whatever the store answers, it returns a summary with the
\* accumulated counts.
C6_FailsOnlyBeforeInserts ==
    \A r \in Runs :
        Returned(r) =>
            IF run[r].response.summary.ok
            THEN /\ run[r].response.status = 200
                 /\ run[r].fetchFailed = 0
                 /\ Len(run[r].queries) = Len(run[r].roles)
                 /\ run[r].response.summary.deduped_items = Len(run[r].answers)
                 /\ run[r].response.summary.inserted = CountOf(run[r].answers, {"ok"})
                 /\ run[r].response.summary.skipped_duplicates
                       = CountOf(run[r].answers, {"23505"})
                 /\ run[r].response.summary.failed
                       = CountOf(run[r].answers, StoreFailures)
            ELSE /\ run[r].attempted = <<>>
                 /\ \/ run[r].auth = "unauthorized"
                    \/ run[r].lookup = "error"
                    \/ run[r].lookup = "row" /\ run[r].roles = <<>>
                    \/ run[r].fetchFailed > 0
                    \/ run[r].response.error = "Missing env var"

\* a run returned a summary that counts an insert, a duplicate and a failure
C6_Witness ==
    \E r \in Runs :
        /\ GaveSummary(r)
        /\ run[r].response.summary.inserted >= 1
        /\ run[r].response.summary.skipped_duplicates >= 1
        /\ run[r].response.summary.failed >= 1

\* no entry of the stored role list is a string with a character other
\* than white space
RolesAllBlank(profile) ==
    \/ profile.roles.t # "array"
    \/ \A i \in 1..Len(profile.roles.a) :
          \/ profile.roles.a[i].t # "string"
          \/ \A k \in 1..Len(profile.roles.a[i].s) : IsSpace(profile.roles.a[i].s[k])

NothingIssued(r) == run[r].queries = <<>> /\ run[r].attempted = <<>>

\* C7: an unauthenticated caller gets Unauthorized, a user without a
\* stored profile NotFound, a profile whose role list is empty after
\* trimming BadInput; the checks are made in that order, and in the three
\* cases no search is sent and no insert attempted.
C7_EarlyFailures ==
    \A r \in Runs :
        /\ run[r].auth = "unauthorized" =>
              /\ Returned(r) /\ run[r].response.status = 401
              /\ run[r].lookup = "" /\ NothingIssued(r)
        /\ run[r].lookup # "" => run[r].auth = "ok"
        /\ (run[r].lookup = "row" /\ profileStore[run[r].userId] = NoProfile) =>
              /\ Returned(r) /\ run[r].response.status = 404
              /\ NothingIssued(r)
        /\ (/\ run[r].lookup = "row"
            /\ profileStore[run[r].userId] # NoProfile
            /\ RolesAllBlank(profileStore[run[r].userId])) =>
              /\ Returned(r) /\ run[r].response.status = 400
              /\ NothingIssued(r)
        /\ run[r].response.status \in {400, 404} => run[r].lookup = "row"
        /\ run[r].response.status = 400 => profileStore[run[r].userId] # NoProfile

\* one run ended NotFound and another BadInput on a role list holding
\* blank entries only
C7_Witness ==
    \E a, b \in Runs :
        /\ run[a].response.status = 404 /\ run[a].auth = "ok"
        /\ run[b].response.status = 400
        /\ profileStore[run[b].userId] = ProfBlank

\* the first n entries of a role list that are strings and not blank, trimmed
RECURSIVE FirstRoles(_, _)
FirstRoles(list, n) ==
    IF list = <<>> \/ n = 0 THEN <<>>
    ELSE IF Head(list).t = "string" /\ trim(Head(list).s) # <<>>
    THEN <<trim(Head(list).s)>> \o FirstRoles(Tail(list), n - 1)
    ELSE FirstRoles(Tail(list), n)

\* query q is a search for role: it is role, or role followed by a space
SearchesFor(q, role) ==
    /\ Len(q) >= Len(role)
    /\ SubSeq(q, 1, Len(role)) = role
    /\ Len(q) > Len(role) => q[Len(role) + 1] = " "

\* C8: a run sends one search per selected role, in order, the selected
\* roles being the first 3 trimmed non-empty entries of the profile's role
\* list; never more than 3 searches, and for roles A, B, C, D exactly the
\* searches for A, B and C.
C8_OneSearchPerSelectedRole ==
    \A r \in Runs :
        IF run[r].lookup = "row" /\ profileStore[run[r].userId] # NoProfile
                                 /\ profileStore[run[r].userId].roles.t = "array"
        THEN LET selected == FirstRoles(profileStore[run[r].userId].roles.a, 3)
             IN  /\ Len(run[r].queries) <= 3
                 /\ Len(run[r].queries) <= Len(selected)
                 /\ \A i \in 1..Len(run[r].queries) :
                       SearchesFor(run[r].queries[i], selected[i])
                 /\ GaveSummary(r) =>
                       /\ Len(run[r].queries) = Len(selected)
                       /\ run[r].response.summary.roles_used = selected
                 /\ (GaveSummary(r) /\ profileStore[run[r].userId] = ProfFour) =>
                       run[r].response.summary.roles_used = <<<<"A">>, <<"B">>, <<"C">>>>
        ELSE run[r].queries = <<>>

\* a run for the profile with roles A, B, C, D (among blank entries)
\* returned a summary after three searches
C8_Witness ==
    \E r \in Runs :
        /\ GaveSummary(r)
        /\ profileStore[run[r].userId] = ProfFour
        /\ Len(run[r].queries) = 3
        /\ run[r].response.summary.roles_used = <<<<"A">>, <<"B">>, <<"C">>>>

Elems(seq) == {seq[i] : i \in 1..Len(seq)}

\* the record has no external_job_id and no apply_url
Unkeyed(job) == job.external_job_id \in {Null, Str(<<>>)} /\ job.apply_url \in {Null, Str(<<>>)}

\* C11: a normalized job that has neither external_job_id nor apply_url is
\* not in the output of dedupeNormalizedJobs, is never handed to the store's
\* insert by a run, and is in no row of the store.
C11_UnkeyedNeverOffered ==
    /\ \A r \in Runs :
          /\ \A j \in Elems(run[r].deduped) \cup Elems(run[r].attempted) : ~Unkeyed(j)
          /\ \A j \in Elems(run[r].normalized) :
                Unkeyed(j) => j \notin Elems(dedupeNormalizedJobs(run[r].normalized))
    /\ \A row \in jobStore : ~Unkeyed(row.job)

\* a run normalized a record without a key among keyed ones, offered the
\* keyed ones to the store and returned its summary
C11_Witness ==
    \E r \in Runs :
        /\ GaveSummary(r)
        /\ \E j \in Elems(run[r].normalized) : Unkeyed(j)
        /\ Len(run[r].attempted) = 3
        /\ run[r].response.summary.normalized_items > 3

\* At each await of run r the awaited call can return its failure, and that
\* step is enabled exactly while the run waits there.
ReturnsFailure(r) ==
    \/ AuthUnauthorized(r)
    \/ ProfileError(r)
    \/ \E e \in FetchErrors : FetchThrow(r, e)
    \/ InsertOtherFailure(r)

\* Every collaborator call of every run returns: no run waits at an await
\* for ever.  A run that has not returned has a step of ReturnsFailure
\* enabled until it takes a step, so weak fairness on it says that the run
\* leaves each await, with that answer or with another.
SpecFair == Spec /\ \A r \in Runs : WF_vars(ReturnsFailure(r))

(***************************************************************************)
(* One call of normalizeJSearchJob on one upstream item.                    *)
(***************************************************************************)
T_plain         == <<"D", "e", "v">>
T_padded        == <<" ", "Q", "A", " ">>
T_blank         == <<" ", " ">>
V_blank         == <<" ">>
V_j1            == <<"j", "1">>
V_j2pad         == <<" ", "j", "2", " ">>
V_j3            == <<"j", "3">>
V_g1            == <<"g", "1">>
V_u1            == <<"u", "1">>
V_u2pad         == <<"u", "2", " ">>
L_NY            == <<"N", "Y">>
L_Remote        == <<"R", "e", "m", "o", "t", "e", ",", " ", "U", "S">>
L_HybridOnsite  == <<"H", "y", "b", "r", "i", "d", " ", "o", "r", " ", "o", "n", "s", "i", "t", "e">>
L_OnDashSite    == <<"O", "n", "-", "S", "i", "t", "e">>
L_REMOTE_hybrid == <<"R", "E", "M", "O", "T", "E", " ", "h", "y", "b", "r", "i", "d">>
L_on_site       == <<"o", "n", " ", "s", "i", "t", "e">>
L_Onsite        == <<"O", "n", "s", "i", "t", "e">>
L_US            == <<"U", "S">>
F_true          == <<"t", "r", "u", "e">>
F_TRUE          == <<"T", "R", "U", "E">>
F_TruePad       == <<"T", "r", "u", "e", " ">>
F_false         == <<"f", "a", "l", "s", "e">>
F_yes           == <<"y", "e", "s">>

\* items that are not records
NonRecords == {Null, Undef, Bool(TRUE), Str(V_j1), Str(<<>>)}

Titles == {Undef, Null, Bool(TRUE), Str(<<>>), Str(T_blank), Str(T_plain), Str(T_padded)}

\* items that differ in title and in the keys the id and url chains read
ChainItems ==
    [ job_title             : Titles,
      job_id                : {Undef, Str(V_blank), Str(V_j1), Str(V_j2pad)},
      id                    : {Undef, Str(V_blank), Str(V_j3)},
      job_google_link       : {Undef, Str(<<>>), Str(V_g1)},
      job_apply_link        : {Null, Str(V_blank), Str(V_u1)},
      job_apply_link_direct : {Undef, Str(V_u2pad)} ]

\* items that differ in the keys the location chain and the remote flag read
RemoteItems ==
    [ job_title     : {Str(T_plain)},
      job_id        : {Str(V_j1)},
      job_location  : {Undef, Str(V_blank), Str(L_NY), Str(L_Remote),
                       Str(L_HybridOnsite), Str(L_OnDashSite)},
      job_city      : {Undef, Str(L_REMOTE_hybrid), Str(L_on_site), Str(L_NY)},
      job_country   : {Undef, Str(L_Onsite), Str(L_US)},
      job_is_remote : {Undef, Null, Bool(TRUE), Bool(FALSE), Str(F_true), Str(F_TRUE),
                       Str(F_TruePad), Str(F_false), Str(F_yes)} ]

NormInputs == NonRecords \cup {Obj(f) : f \in ChainItems \cup RemoteItems}

NInit ==
    /\ profileStore = [u \in Users |-> NoProfile]
    /\ jobStore = {}
    /\ listing = ListingV1
    /\ run = [r \in Runs |-> NewRun]
    /\ hStage = "off"
    /\ hRaw = <<>>
    /\ hJobs = <<>>
    /\ hOut = <<>>
    /\ hOut2 = <<>>
    /\ fStage = "item"
    /\ fIn \in NormInputs
    /\ fOut = <<>>
    /\ fKept = <<>>

\* normalizeJSearchJob(item)
NCall ==
    /\ fStage = "item"
    /\ fOut' = normalizeJSearchJob(fIn)
    /\ fStage' = "returned"
    /\ UNCHANGED <<fIn, fKept, profileStore, jobStore, listing, run, hStage, hRaw, hJobs, hOut, hOut2>>

\* [item].map(normalizeJSearchJob).filter(Boolean), what the handler passes
\* on to dedupeNormalizedJobs
NFilter ==
    /\ fStage = "returned"
    /\ fKept' = NormalizeBatch(<<fIn>>)
    /\ fStage' = "kept"
    /\ UNCHANGED <<fIn, fOut, profileStore, jobStore, listing, run, hStage, hRaw, hJobs, hOut, hOut2>>

NNext == NCall \/ NFilter

SpecNormalize == NInit /\ [][NNext]_vars

\* the call of normalizeJSearchJob has returned
NormReturned == fStage \in {"returned", "kept"}

\* the string has a character that is not white space
NotBlank(s) == \E k \in 1..Len(s) : ~IsSpace(s[k])

\* the item is a record whose job_title is a string that is not blank
HasTitle(item) ==
    /\ item.t = "object"
    /\ "job_title" \in DOMAIN item.f
    /\ item.f.job_title.t = "string"
    /\ NotBlank(item.f.job_title.s)

\* C12: normalizeJSearchJob returns null for every item that is not a
\* record or has no title that is non-empty after trimming, so that every
\* record it returns, and every record the handler passes on to dedupe,
\* has a non-empty title.
C12_TitleNonEmpty ==
    /\ NormReturned =>
          /\ ~HasTitle(fIn) => fOut = Null
          /\ fOut # Null => /\ fOut.title.t = "string"
                            /\ fOut.title.s # <<>>
                            /\ NotBlank(fOut.title.s)
    /\ fStage = "kept" =>
          /\ fOut = Null => fKept = <<>>
          /\ \A j \in Elems(fKept) : j.title.t = "string" /\ NotBlank(j.title.s)
          /\ \A j \in Elems(dedupeNormalizedJobs(fKept)) : NotBlank(j.title.s)

\* a record with a blank title was given and nothing was returned for it,
\* and nothing of it reached dedupe
C12_Witness ==
    /\ fStage = "kept"
    /\ fIn.t = "object" /\ fIn.f.job_title = Str(T_blank)
    /\ fIn.f.job_id = Str(V_j1)
    /\ fOut = Null /\ fKept = <<>>

\* the call returned a record
NormRecord == NormReturned /\ fOut # Null

\* C13: in every record normalizeJSearchJob returns, is_remote = true
\* implies remote_type = "remote".
C13_RemoteImpliesRemoteType ==
    NormRecord => (fOut.is_remote => fOut.remote_type = Str(S_remote))

\* a record flagged remote whose location text says hybrid was returned as
\* remote
C13_Witness ==
    /\ NormRecord
    /\ fIn.f \in RemoteItems
    /\ fIn.f.job_is_remote = Bool(TRUE)
    /\ fIn.f.job_location = Str(L_HybridOnsite)
    /\ fOut.is_remote /\ fOut.remote_type = Str(S_remote)

(***************************************************************************)
(* One call of buildQuery.                                                  *)
(***************************************************************************)
Q_Engineer       == <<"E", "n", "g", "i", "n", "e", "e", "r">>
Q_QA             == <<"Q", "A">>
Q_Data_Eng       == <<"D", "a", "t", "a", " ", "E", "n", "g">>
Q_Austin         == <<"A", "u", "s", "t", "i", "n">>
Q_AustinPad      == <<" ", "A", "u", "s", "t", "i", "n", " ">>
Q_blank          == <<" ", " ">>
Q_RemoteOK       == <<"R", "e", "m", "o", "t", "e", " ", "O", "K">>
Q_remote         == <<"r", "e", "m", "o", "t", "e">>
Q_FullyREMOTE    == <<"F", "u", "l", "l", "y", " ", "R", "E", "M", "O", "T", "E">>
Q_onsite         == <<"o", "n", "s", "i", "t", "e">>
Q_remot          == <<"r", "e", "m", "o", "t", " ", "e">>
Q_E_remote_in_A  == <<"E", "n", "g", "i", "n", "e", "e", "r", " ", "r", "e", "m", "o", "t", "e", " ", "i", "n", " ", "A", "u", "s", "t", "i", "n">>
Q_E_remote       == <<"E", "n", "g", "i", "n", "e", "e", "r", " ", "r", "e", "m", "o", "t", "e">>
Q_E_in_A         == <<"E", "n", "g", "i", "n", "e", "e", "r", " ", "i", "n", " ", "A", "u", "s", "t", "i", "n">>

QueryArgs ==
    [ role         : {Q_Engineer, Q_QA, Q_Data_Eng},
      locationPref : {Null, Str(<<>>), Str(Q_blank), Str(Q_Austin), Str(Q_AustinPad)},
      remoteIntent : {Null, Str(<<>>), Str(Q_RemoteOK), Str(Q_remote), Str(Q_FullyREMOTE),
                      Str(Q_onsite), Str(Q_remot)} ]

QInit ==
    /\ profileStore = [u \in Users |-> NoProfile]
    /\ jobStore = {}
    /\ listing = ListingV1
    /\ run = [r \in Runs |-> NewRun]
    /\ hStage = "off"
    /\ hRaw = <<>>
    /\ hJobs = <<>>
    /\ hOut = <<>>
    /\ hOut2 = <<>>
    /\ fStage = "args"
    /\ fIn \in QueryArgs
    /\ fOut = <<>>
    /\ fKept = <<>>

\* buildQuery(role, profile.location_preference, profile.remote_intent)
QCall ==
    /\ fStage = "args"
    /\ fOut' = buildQuery(fIn.role, fIn.locationPref, fIn.remoteIntent)
    /\ fStage' = "query"
    /\ UNCHANGED <<fIn, fKept, profileStore, jobStore, listing, run, hStage, hRaw, hJobs, hOut, hOut2>>

QNext == QCall

SpecQuery == QInit /\ [][QNext]_vars

\* word w (in lower case) occurs in s, in any letter case
ContainsCI(s, w) ==
    \E i \in 0..(Len(s) - Len(w)) : \A k \in 1..Len(w) : LowerChar(s[i + k]) = w[k]

\* s from its first to its last character that is not white space
Stripped(s) ==
    LET at == {k \in 1..Len(s) : ~IsSpace(s[k])}
    IN  IF at = {} THEN <<>>
        ELSE SubSeq(s, CHOOSE a \in at : \A b \in at : a <= b,
                       CHOOSE a \in at : \A b \in at : a >= b)

WantsRemote(remoteIntent) ==
    remoteIntent.t = "string" /\ ContainsCI(remoteIntent.s, S_remote)

LocationPresent(locationPref) ==
    locationPref.t = "string" /\ NotBlank(locationPref.s)

\* C14: buildQuery returns "<role> remote in <location>" when remoteIntent
\* contains "remote" in any letter case and a location is present,
\* "<role> remote" when only the first holds, "<role> in <location>" when
\* only the second, and "<role>" when neither; a null or blank location
\* is not present, a null remoteIntent does not want remote, and the
\* location is written without the white space around it.
C14_BuildQueryForms ==
    fStage = "query" =>
        LET role   == fIn.role
            wants  == WantsRemote(fIn.remoteIntent)
            hasLoc == LocationPresent(fIn.locationPref)
            loc    == Stripped(fIn.locationPref.s)
        IN  /\ (wants /\ hasLoc)   => fOut = role \o <<" ">> \o S_remote \o <<" ", "i", "n", " ">> \o loc
            /\ (wants /\ ~hasLoc)  => fOut = role \o <<" ">> \o S_remote
            /\ (~wants /\ hasLoc)  => fOut = role \o <<" ", "i", "n", " ">> \o loc
            /\ (~wants /\ ~hasLoc) => fOut = role
            /\ fIn = [role |-> Q_Engineer, locationPref |-> Str(Q_Austin),
                      remoteIntent |-> Str(Q_RemoteOK)] => fOut = Q_E_remote_in_A
            /\ fIn = [role |-> Q_Engineer, locationPref |-> Null,
                      remoteIntent |-> Str(Q_remote)] => fOut = Q_E_remote
            /\ fIn = [role |-> Q_Engineer, locationPref |-> Str(Q_Austin),
                      remoteIntent |-> Null] => fOut = Q_E_in_A
            /\ fIn = [role |-> Q_Engineer, locationPref |-> Null,
                      remoteIntent |-> Null] => fOut = Q_Engineer

\* the query for role Engineer, location Austin and intent "Remote OK" was
\* built as "Engineer remote in Austin"
C14_Witness ==
    /\ fStage = "query"
    /\ fIn = [role |-> Q_Engineer, locationPref |-> Str(Q_Austin),
              remoteIntent |-> Str(Q_RemoteOK)]
    /\ fOut = Q_E_remote_in_A

\* the value counts as present: a string with a character that is not
\* white space
Present(v) == v.t = "string" /\ NotBlank(v.s)

\* the trimmed value of the first of the keys whose value is present in r,
\* null when none is
RECURSIVE FirstPresent(_, _)
FirstPresent(r, keys) ==
    IF keys = <<>> THEN Null
    ELSE IF Head(keys) \in DOMAIN r /\ Present(r[Head(keys)])
    THEN Str(Stripped(r[Head(keys)].s))
    ELSE FirstPresent(r, Tail(keys))

\* C15: in every record normalizeJSearchJob returns, external_job_id is
\* the trimmed value of the first present of job_id, id, job_google_link,
\* apply_url that of job_apply_link, job_apply_link_direct,
\* job_google_link, and location_text that of job_location, job_city,
\* job_country, a value being present when it is a string that is not
\* empty after trimming; the field is null when no key of its chain is
\* present.
C15_FallbackChains ==
    NormRecord =>
        /\ fOut.external_job_id
              = FirstPresent(fIn.f, <<"job_id", "id", "job_google_link">>)
        /\ fOut.apply_url
              = FirstPresent(fIn.f, <<"job_apply_link", "job_apply_link_direct",
                                      "job_google_link">>)
        /\ fOut.location_text
              = FirstPresent(fIn.f, <<"job_location", "job_city", "job_country">>)

\* a record whose job_id and id are blank and whose job_apply_link is
\* blank took both its id and its url from job_google_link
C15_Witness ==
    /\ NormRecord
    /\ fIn.f \in ChainItems
    /\ fIn.f.job_id = Str(V_blank) /\ fIn.f.id = Str(V_blank)
    /\ fIn.f.job_apply_link = Str(V_blank) /\ fIn.f.job_apply_link_direct = Undef
    /\ fOut.external_job_id = Str(V_g1) /\ fOut.apply_url = Str(V_g1)

\* the location text of the returned record, empty when it has none
LocText == IF fOut.location_text = Null THEN <<>> ELSE fOut.location_text.s

SaysOnsite(s) ==
    \/ ContainsCI(s, <<"o", "n", "-", "s", "i", "t", "e">>)
    \/ ContainsCI(s, <<"o", "n", "s", "i", "t", "e">>)
    \/ ContainsCI(s, <<"o", "n", " ", "s", "i", "t", "e">>)

\* C16: remote_type of a returned record is "remote" if is_remote; else
\* "hybrid" if the location text contains "hybrid"; else "onsite" if it
\* contains "on-site", "onsite" or "on site"; else absent (null).  So a
\* location that names hybrid and onsite gives "hybrid", and the value is
\* always one of remote, hybrid, onsite or absent.
C16_RemoteTypeRules ==
    NormRecord =>
        /\ fOut.remote_type =
              (IF fOut.is_remote THEN Str(<<"r", "e", "m", "o", "t", "e">>)
               ELSE IF ContainsCI(LocText, <<"h", "y", "b", "r", "i", "d">>)
                    THEN Str(<<"h", "y", "b", "r", "i", "d">>)
               ELSE IF SaysOnsite(LocText) THEN Str(<<"o", "n", "s", "i", "t", "e">>)
               ELSE Null)
        /\ fOut.remote_type \in {Str(<<"r", "e", "m", "o", "t", "e">>),
                                 Str(<<"h", "y", "b", "r", "i", "d">>),
                                 Str(<<"o", "n", "s", "i", "t", "e">>), Null}

\* a record that is not remote and whose location text names both hybrid
\* and onsite was returned as hybrid
C16_Witness ==
    /\ NormRecord
    /\ ~fOut.is_remote
    /\ fOut.location_text = Str(L_HybridOnsite)
    /\ fOut.remote_type = Str(S_hybrid)

\* C17: is_remote of a returned record is true exactly when the item's
\* job_is_remote is the boolean true or the string "true" in any letter
\* case, or the resolved location text contains "remote" in any letter
\* case; a flag of false does not override such a location text.
C17_IsRemoteExactly ==
    NormRecord =>
        LET flag == IF "job_is_remote" \in DOMAIN fIn.f THEN fIn.f.job_is_remote ELSE Undef
        IN  fOut.is_remote <=>
               \/ flag = Bool(TRUE)
               \/ /\ flag.t = "string"
                  /\ Len(flag.s) = 4
                  /\ ContainsCI(flag.s, <<"t", "r", "u", "e">>)
               \/ ContainsCI(LocText, <<"r", "e", "m", "o", "t", "e">>)

\* a record flagged false whose location says "Remote, US" was returned
\* as remote
C17_Witness ==
    /\ NormRecord
    /\ fIn.f \in RemoteItems
    /\ fIn.f.job_is_remote = Bool(FALSE)
    /\ fOut.location_text = Str(L_Remote)
    /\ fOut.is_remote

\* C19: in every returned summary inserted + skipped_duplicates + failed =
\* deduped_items, deduped_items <= normalized_items <= fetched_items, and
\* fetched_items is the number of raw items the provider returned to all
\* the role queries of the run; and at every step of the insert loop the
\* three counters add up to the number of records attempted so far.
C19_CountsAddUp ==
    \A r \in Runs :
        /\ run[r].inserted + run[r].skippedDuplicates + run[r].failed
              = Len(run[r].attempted)
        /\ GaveSummary(r) =>
              LET s == run[r].response.summary
              IN  /\ s.inserted + s.skipped_duplicates + s.failed = s.deduped_items
                  /\ s.deduped_items <= s.normalized_items
                  /\ s.normalized_items <= s.fetched_items
                  /\ s.fetched_items = run[r].itemsReturned
                  /\ s.deduped_items = Len(run[r].attempted)

\* a run returned a summary with fewer deduped than normalized and fewer
\* normalized than fetched items, and counts of all three kinds, while
\* another is in the middle of its insert loop
C19_Witness ==
    \E a, b \in Runs :
        /\ GaveSummary(a)
        /\ run[a].response.summary.fetched_items > run[a].response.summary.normalized_items
        /\ run[a].response.summary.normalized_items > run[a].response.summary.deduped_items
        /\ run[a].response.summary.inserted = 1
        /\ run[a].response.summary.skipped_duplicates = 1
        /\ run[a].response.summary.failed = 1
        /\ run[b].pc = "insert"
        /\ Len(run[b].attempted) = 2

\* the dedupe keys of the records of a list that have one
KeysOf(jobs) ==
    {getJobDedupeKey(jobs[i]) : i \in 1..Len(jobs)} \ {Null}

\* the lists that hold the records of jobs in another order
Reorderings(jobs) ==
    {[i \in 1..Len(jobs) |-> jobs[p[i]]] :
        p \in {f \in [1..Len(jobs) -> 1..Len(jobs)] :
                  \A a, b \in 1..Len(jobs) : f[a] = f[b] => a = b}}

\* C20: dedupeNormalizedJobs loses no keyed job: the set of dedupe keys of
\* its output is the set of non-null dedupe keys of its input, and so is
\* the same for every order of the input.
C20_NoKeyLost ==
    Deduped =>
        /\ KeysOf(hOut) = KeysOf(hJobs)
        /\ \A jobs \in Reorderings(hJobs) :
              KeysOf(dedupeNormalizedJobs(jobs)) = KeysOf(hOut)

\* a list with two records of one key and a record of another was
\* deduplicated; in another order of the list another record stands for
\* the shared key
C20_Witness ==
    /\ Deduped
    /\ Len(hJobs) = 3 /\ Len(hOut) = 2
    /\ \E jobs \in Reorderings(hJobs) :
          /\ Elems(dedupeNormalizedJobs(jobs)) # Elems(hOut)
          /\ KeysOf(dedupeNormalizedJobs(jobs)) = KeysOf(hOut)

(***************************************************************************)
(* Termination of a run, checked under SpecFair.                           *)
(***************************************************************************)
\* the position of a run in the handler: its stage, then the searches it
\* has sent, then the inserts it has attempted
StageRank(pc) ==
    CASE pc = "auth"    -> 0
      [] pc = "profile" -> 1
      [] pc = "fetch"   -> 2
      [] pc = "insert"  -> 3
      [] pc = "done"    -> 4

Before(a, b) ==
    \/ StageRank(a.pc) < StageRank(b.pc)
    \/ /\ a.pc = b.pc
       /\ \/ Len(a.queries) < Len(b.queries)
          \/ Len(a.queries) = Len(b.queries) /\ Len(a.attempted) < Len(b.attempted)

\* no step takes a run back, or leaves it where it was
Forward == \A r \in Runs : run'[r] # run[r] => Before(run[r], run'[r])

SearchesThenInserts ==
    \A r \in Runs :
        /\ Len(run[r].queries) <= 3
        /\ Len(run[r].attempted) <= Len(run[r].deduped)
        /\ run[r].attempted = SubSeq(run[r].deduped, 1, Len(run[r].attempted))
        /\ run[r].pc = "insert" \/ run[r].attempted # <<>> =>
              /\ Len(run[r].queries) = Len(run[r].roles)
              /\ run[r].fetchFailed = 0
        /\ run[r].pc = "done" => run[r].response # NoResponse
        /\ run[r].pc # "done" => run[r].response = NoResponse

\* C18: a sync run goes through its stages in one direction only; when
\* every collaborator call returns, every run reaches a terminal state (a
\* summary or an error response), after at most 3 searches and one insert
\* attempt per deduplicated record, and it attempts no insert before all
\* its searches have returned.
C18_RunsTerminate ==
    /\ [][Forward]_vars
    /\ []SearchesThenInserts
    /\ <>(\A r \in Runs : Returned(r))

\* a run returned a summary after three searches and three insert
\* attempts, and another returned an error after one search
C18_Witness ==
    \E a, b \in Runs :
        /\ GaveSummary(a)
        /\ Len(run[a].queries) = 3 /\ Len(run[a].attempted) = 3
        /\ Returned(b) /\ run[b].response.status = 500
        /\ Len(run[b].queries) = 1 /\ run[b].attempted = <<>>

====
